---- MODULE Spec2Model ----
(***************************************************************************)
(* GHL MCP server: the sub-account registry (a D1 table), the tenant       *)
(* resolver resolveClient, the HTTP client facade GHLClient and the tool   *)
(* handlers registered by GHLMcpAgent.init.                                *)
(*                                                                         *)
(* Strings of the program are TLA+ strings.  A tool response text is the   *)
(* sequence of the pieces its template literal concatenates.  An optional  *)
(* parameter that was not passed is Undefined.                             *)
(***************************************************************************)
EXTENDS Integers, Sequences, FiniteSets, TLC

VARIABLES
    db,           \* rows of table sub_accounts
    tableExists,  \* whether table sub_accounts has been created
    call,         \* the last tool call: its tool name and arguments
    resp,         \* what that call's handler produced
    upstream,     \* the upstream outcomes that call received, in order
    sent,         \* the upstream requests that call issued, in order
    running       \* the calls in flight at once, where calls overlap

vars == <<db, tableExists, call, resp, upstream, sent, running>>

----------------------------------------------------------------------------
(* Bounds *)

\* number of location ids tool calls draw from
MaxIds == 2
\* longest field list given to the bulk tool
MaxFields == 2

\* z.string() admits the empty string
IdPool == <<"", "loc_1", "loc_2", "loc_3">>

Ids == {IdPool[i] : i \in 1..MaxIds}

Undefined == "<undefined>"

OptIds == Ids \cup {Undefined}

\* Private Integration Tokens given to register and rotate calls
Keys == {"pit_1", "pit_2"}

\* env.GHL_API_KEY and env.GHL_LOCATION_ID
EnvApiKey == "pit_env"
EnvLocationId == "loc_env"

\* JavaScript truthiness of an optional string
Truthy(s) == s # Undefined /\ s # ""

\* the right operand whatever the left one is
OrElse_Right(a, b) == b

\* a || b on optional strings
OrElse(a, b) == IF Truthy(a) THEN a ELSE b

----------------------------------------------------------------------------
(* Names, and SQL's LOWER(name) LIKE LOWER('%' || pattern || '%') *)

\* the names registered are "Ab" and "aBc"; set-default searches for these
\* (z.string() admits any text, LIKE's wildcard characters included)
Patterns == {"AB", "c", "x", "_b"}

Chars(s) ==
    CASE s = "Ab" -> <<"A", "b">>
      [] s = "aBc" -> <<"a", "B", "c">>
      [] s = "AB" -> <<"A", "B">>
      [] s = "c" -> <<"c">>
      [] s = "x" -> <<"x">>
      [] s = "_b" -> <<"_", "b">>
      [] OTHER -> <<>>

LowerChar(c) ==
    CASE c = "A" -> "a"
      [] c = "B" -> "b"
      [] OTHER -> c

Lower(cs) == [i \in 1..Len(cs) |-> LowerChar(cs[i])]

\* byte order of the characters (SQLite's BINARY collation)
CharCode(c) ==
    CASE c = "A" -> 65
      [] c = "B" -> 66
      [] c = "a" -> 97
      [] c = "b" -> 98
      [] c = "c" -> 99
      [] c = "_" -> 95
      [] OTHER -> 120

\* needle occurs in hay as a run of consecutive characters
Contains(hay, needle) ==
    \E i \in 0..(Len(hay) - Len(needle)) :
        \A j \in 1..Len(needle) : hay[i + j] = needle[j]

\* X LIKE P with no ESCAPE clause: % matches any run of characters and _ any
\* one character
RECURSIVE LikeMatch(_, _)
LikeMatch(x, p) ==
    IF p = <<>> THEN x = <<>>
    ELSE IF Head(p) = "%"
    THEN LikeMatch(x, Tail(p)) \/ (x # <<>> /\ LikeMatch(Tail(x), p))
    ELSE IF x = <<>> THEN FALSE
    ELSE (Head(p) = "_" \/ Head(p) = Head(x)) /\ LikeMatch(Tail(x), Tail(p))

\* LOWER(name) LIKE LOWER(?) bound to `%${pattern}%`
Like(name, pattern) ==
    LikeMatch(Lower(Chars(name)), Lower(<<"%">> \o Chars(pattern) \o <<"%">>))

----------------------------------------------------------------------------
(* Table sub_accounts and the statements run against it *)

Null == "<null>"

Row(id, name, apiKey, accountType, isDefault, notes) ==
    [id |-> id, name |-> name, api_key |-> apiKey, account_type |-> accountType,
     is_default |-> isDefault, notes |-> notes]

\* the table dropped and created anew
initDb_Recreate(rows) == {}

\* CREATE TABLE IF NOT EXISTS sub_accounts (...)
initDb(rows) == rows

\* the result of .first(): a set holding the row, or the empty set for null
First(rows) == IF rows = {} THEN {{}} ELSE {{r} : r \in rows}

\* the default lookup finding nothing
getDefaultAccount_None(rows) == {{}}

\* the default lookup without its WHERE clause
getDefaultAccount_AnyRow(rows) == First(rows)

\* SELECT * FROM sub_accounts WHERE is_default = 1 LIMIT 1
getDefaultAccount(rows) == First({r \in rows : r.is_default = 1})

\* SELECT * FROM sub_accounts WHERE id = ?
getAccountById(rows, locationId) == First({r \in rows : r.id = locationId})

\* SELECT * FROM sub_accounts WHERE LOWER(name) LIKE LOWER(?)
getAccountByName(rows, name) == First({r \in rows : Like(r.name, name)})

\* the clearing statement left out
ClearDefaults_Skipped(rows) == rows

\* UPDATE sub_accounts SET is_default = 0
ClearDefaults(rows) == {[r EXCEPT !.is_default = 0] : r \in rows}

\* an upsert that leaves the flag of an existing row as it is
InsertOrReplace_KeepFlag(rows, row) ==
    {r \in rows : r.id # row.id}
        \cup {[row EXCEPT !.is_default =
                   IF \E r \in rows : r.id = row.id /\ r.is_default = 1
                   THEN 1 ELSE @]}

\* a plain insert into a table without the primary key
InsertOrReplace_NoKey(rows, row) == rows \cup {row}

\* INSERT OR REPLACE INTO sub_accounts (...) VALUES (...); id is the primary key
InsertOrReplace(rows, row) == {r \in rows : r.id # row.id} \cup {row}

\* the flagging statement matching no row
MarkDefault_NoRow(rows, id) == rows

\* UPDATE sub_accounts SET is_default = 1 WHERE id = ?
MarkDefault(rows, id) ==
    {IF r.id = id THEN [r EXCEPT !.is_default = 1] ELSE r : r \in rows}

\* the DELETE followed by the remaining rows taking over a deleted default
DeleteById_Promote(rows, id) ==
    IF \E r \in rows : r.id = id /\ r.is_default = 1
    THEN {[r EXCEPT !.is_default = 1] : r \in {q \in rows : q.id # id}}
    ELSE {r \in rows : r.id # id}

\* the DELETE without its WHERE clause
DeleteById_All(rows, id) == {}

\* DELETE FROM sub_accounts WHERE id = ?
DeleteById(rows, id) == {r \in rows : r.id # id}

\* the UPDATE without its WHERE clause
UpdateApiKey_All(rows, id, apiKey) == {[r EXCEPT !.api_key = apiKey] : r \in rows}

\* UPDATE sub_accounts SET api_key = ? WHERE id = ?
UpdateApiKey(rows, id, apiKey) ==
    {IF r.id = id THEN [r EXCEPT !.api_key = apiKey] ELSE r : r \in rows}

\* the statement of a handler at which the database throws, if any
Faults == {"none", "init", "read", "clear", "write"}

D1Message == "D1_ERROR"

----------------------------------------------------------------------------
(* Tool responses *)

\* text: the pieces of content[0].text; json: the value the text embeds
\* through JSON.stringify, <<>> when it embeds none
Reply(isError, text, json) ==
    [thrown |-> FALSE, isError |-> isError, text |-> text, json |-> json]

Success(text) == Reply(FALSE, text, <<>>)
Failure(text) == Reply(TRUE, text, <<>>)

\* catch (e) { return { content: [{ text: `Error: ${e.message}` }], isError: true } }
Caught(message) == Failure(<<"Error: ">> \o message)

\* an exception that leaves the handler
Thrown(message) ==
    [thrown |-> TRUE, isError |-> FALSE, text |-> message, json |-> <<>>]

\* what a handler leaves behind
Outcome(rows, created, response) ==
    [db |-> rows, tableExists |-> created, resp |-> response]

----------------------------------------------------------------------------
(* Account management tools.  Each handler maps the table, the arguments   *)
(* of the call and the statement at which the database throws to the set   *)
(* of outcomes the handler can produce.                                    *)

NotFoundLong ==
    <<"Account not found. Use ghl_list_sub_accounts to see available accounts.">>
NotFoundShort == <<"Account not found.">>

\* notes || null
NotesOrNull(notes) == IF Truthy(notes) THEN notes ELSE Null

\* the values bound with the flag left 0
BoundRow_Unflagged(a) ==
    Row(a.locationId, a.name, a.apiKey, a.accountType, 0, NotesOrNull(a.notes))

\* .bind(locationId, name, apiKey, accountType, isDefault ? 1 : 0, notes || null)
BoundRow(a) ==
    Row(a.locationId, a.name, a.apiKey, a.accountType,
        IF a.isDefault THEN 1 ELSE 0, NotesOrNull(a.notes))

RegisteredText(a) ==
    <<"Sub-account \"", a.name, "\" (", a.locationId, ") registered successfully!",
      IF a.isDefault THEN " Set as default." ELSE "">>

ghl_add_sub_account(rows, created, a, fault) ==
    IF fault = "init"
    THEN {Outcome(rows, created, Caught(<<D1Message>>))}
    ELSE IF a.isDefault /\ fault = "clear"
    THEN {Outcome(initDb(rows), TRUE, Caught(<<D1Message>>))}
    ELSE LET cleared == IF a.isDefault
                        THEN ClearDefaults(initDb(rows))
                        ELSE initDb(rows)
         IN  IF fault = "write"
             THEN {Outcome(cleared, TRUE, Caught(<<D1Message>>))}
             ELSE {Outcome(InsertOrReplace(cleared, BoundRow(a)), TRUE,
                       Success(RegisteredText(a)))}

\* lexicographic byte order of two names
RECURSIVE SeqLess(_, _)
SeqLess(x, y) ==
    IF y = <<>> THEN FALSE
    ELSE IF x = <<>> THEN TRUE
    ELSE IF CharCode(Head(x)) # CharCode(Head(y))
         THEN CharCode(Head(x)) < CharCode(Head(y))
         ELSE SeqLess(Tail(x), Tail(y))

NameLess(m, n) == SeqLess(Chars(m), Chars(n))

\* SELECT ... FROM sub_accounts ORDER BY name: rows of equal name in any order
OrderByName(rows) ==
    {s \in [1..Cardinality(rows) -> rows] :
        /\ \A i, j \in 1..Cardinality(rows) : i # j => s[i] # s[j]
        /\ \A i, j \in 1..Cardinality(rows) : i < j => ~NameLess(s[j].name, s[i].name)}

\* the listing selecting every column (SELECT *)
Listed_AllColumns(r) ==
    [id |-> r.id, name |-> r.name, api_key |-> r.api_key,
     account_type |-> r.account_type,
     is_default |-> IF r.is_default = 1 THEN "YES" ELSE "no", notes |-> r.notes]

\* the listing without the is_default mapping
Listed_RawFlag(r) ==
    [id |-> r.id, name |-> r.name, account_type |-> r.account_type,
     is_default |-> ToString(r.is_default), notes |-> r.notes]

\* a selected row (no api_key column) with is_default rendered "YES" or "no"
Listed(r) ==
    [id |-> r.id, name |-> r.name, account_type |-> r.account_type,
     is_default |-> IF r.is_default = 1 THEN "YES" ELSE "no", notes |-> r.notes]

ListResponse(accounts) ==
    Reply(FALSE, <<ToString(Len(accounts)), " sub-account(s) registered:\n\n">>,
          accounts)

ghl_list_sub_accounts(rows, created, fault) ==
    IF fault = "init"
    THEN {Outcome(rows, created, Caught(<<D1Message>>))}
    ELSE IF fault = "read"
    THEN {Outcome(initDb(rows), TRUE, Caught(<<D1Message>>))}
    ELSE IF initDb(rows) = {}
    THEN {Outcome(initDb(rows), TRUE,
              Success(<<"No sub-accounts registered yet. Use ghl_add_sub_account to add one.">>))}
    ELSE {Outcome(initDb(rows), TRUE,
              ListResponse([i \in 1..Len(s) |-> Listed(s[i])])) :
          s \in OrderByName(initDb(rows))}

\* the account a set-default call selects: by id, else by name, else null
\* the name tried when the identifier finds no row
SetDefaultLookup_NameFallback(rows, a) ==
    IF Truthy(a.locationId) /\ getAccountById(rows, a.locationId) # {{}}
    THEN getAccountById(rows, a.locationId)
    ELSE IF Truthy(a.name) THEN getAccountByName(rows, a.name)
    ELSE {{}}

SetDefaultLookup(rows, a) ==
    IF Truthy(a.locationId) THEN getAccountById(rows, a.locationId)
    ELSE IF Truthy(a.name) THEN getAccountByName(rows, a.name)
    ELSE {{}}

\* set-default marking the selected row without clearing the others first
SetDefaultFor_NoClear(rows, account, fault) ==
    IF account = {}
    THEN Outcome(rows, TRUE, Failure(NotFoundLong))
    ELSE LET acc == CHOOSE r \in account : TRUE
         IN  IF fault \in {"clear", "write"}
             THEN Outcome(rows, TRUE, Caught(<<D1Message>>))
             ELSE Outcome(MarkDefault(rows, acc.id), TRUE,
                      Success(<<"Default account set to \"", acc.name, "\" (",
                                acc.id, ")">>))

SetDefaultFor(rows, account, fault) ==
    IF account = {}
    THEN Outcome(rows, TRUE, Failure(NotFoundLong))
    ELSE LET acc == CHOOSE r \in account : TRUE
         IN  IF fault = "clear"
             THEN Outcome(rows, TRUE, Caught(<<D1Message>>))
             ELSE IF fault = "write"
             THEN Outcome(ClearDefaults(rows), TRUE, Caught(<<D1Message>>))
             ELSE Outcome(MarkDefault(ClearDefaults(rows), acc.id), TRUE,
                      Success(<<"Default account set to \"", acc.name, "\" (",
                                acc.id, ")">>))

ghl_set_default_account(rows, created, a, fault) ==
    IF fault = "init"
    THEN {Outcome(rows, created, Caught(<<D1Message>>))}
    ELSE IF fault = "read" /\ (Truthy(a.locationId) \/ Truthy(a.name))
    THEN {Outcome(initDb(rows), TRUE, Caught(<<D1Message>>))}
    ELSE {SetDefaultFor(initDb(rows), account, fault) :
          account \in SetDefaultLookup(initDb(rows), a)}

\* remove without the existence check: DELETE runs and success is reported
RemoveFor_Unchecked(rows, account, locationId, fault) ==
    IF fault = "write"
    THEN Outcome(rows, TRUE, Caught(<<D1Message>>))
    ELSE Outcome(DeleteById(rows, locationId), TRUE,
             Success(<<"Sub-account \"", "undefined", "\" (", locationId,
                       ") removed from registry.">>))

RemoveFor(rows, account, locationId, fault) ==
    IF account = {}
    THEN Outcome(rows, TRUE, Failure(NotFoundShort))
    ELSE LET acc == CHOOSE r \in account : TRUE
         IN  IF fault = "write"
             THEN Outcome(rows, TRUE, Caught(<<D1Message>>))
             ELSE Outcome(DeleteById(rows, locationId), TRUE,
                      Success(<<"Sub-account \"", acc.name, "\" (", locationId,
                                ") removed from registry.">>))

ghl_remove_sub_account(rows, created, a, fault) ==
    IF fault = "init"
    THEN {Outcome(rows, created, Caught(<<D1Message>>))}
    ELSE IF fault = "read"
    THEN {Outcome(initDb(rows), TRUE, Caught(<<D1Message>>))}
    ELSE {RemoveFor(initDb(rows), account, a.locationId, fault) :
          account \in getAccountById(initDb(rows), a.locationId)}

UpdateTokenFor(rows, account, a, fault) ==
    IF account = {}
    THEN Outcome(rows, TRUE, Failure(NotFoundShort))
    ELSE LET acc == CHOOSE r \in account : TRUE
         IN  IF fault = "write"
             THEN Outcome(rows, TRUE, Caught(<<D1Message>>))
             ELSE Outcome(UpdateApiKey(rows, a.locationId, a.apiKey), TRUE,
                      Success(<<"API token updated for \"", acc.name, "\" (",
                                a.locationId, ")">>))

ghl_update_sub_account_token(rows, created, a, fault) ==
    IF fault = "init"
    THEN {Outcome(rows, created, Caught(<<D1Message>>))}
    ELSE IF fault = "read"
    THEN {Outcome(initDb(rows), TRUE, Caught(<<D1Message>>))}
    ELSE {UpdateTokenFor(initDb(rows), account, a, fault) :
          account \in getAccountById(initDb(rows), a.locationId)}

----------------------------------------------------------------------------
(* resolveClient: which credential and tenant id a field/value tool uses *)

GHLClient(apiKey, locationId) == [apiKey |-> apiKey, locationId |-> locationId]

Resolved(client) == [threw |-> FALSE, client |-> client]
ResolveThrew == [threw |-> TRUE, client |-> GHLClient(Undefined, Undefined)]

\* an unregistered identifier replaced by the fallback tenant id
ResolveById_EnvLocation(account, locationId) ==
    IF account = {}
    THEN GHLClient(EnvApiKey, EnvLocationId)
    ELSE LET acc == CHOOSE r \in account : TRUE
         IN  GHLClient(acc.api_key, acc.id)

ResolveById(account, locationId) ==
    IF account = {}
    THEN GHLClient(EnvApiKey, locationId)
    ELSE LET acc == CHOOSE r \in account : TRUE
         IN  GHLClient(acc.api_key, acc.id)

ResolveDefault(defaultAccount) ==
    IF defaultAccount = {}
    THEN GHLClient(EnvApiKey, EnvLocationId)
    ELSE LET acc == CHOOSE r \in defaultAccount : TRUE
         IN  GHLClient(acc.api_key, acc.id)

resolveClient(rows, locationId, fault) ==
    IF fault \in {"init", "read"}
    THEN {ResolveThrew}
    ELSE IF Truthy(locationId)
    THEN {Resolved(ResolveById(account, locationId)) :
          account \in getAccountById(initDb(rows), locationId)}
    ELSE {Resolved(ResolveDefault(account)) :
          account \in getDefaultAccount(initDb(rows))}

\* whether the table exists once resolveClient has run
CreatedAfter(created, fault) == IF fault = "init" THEN created ELSE TRUE

----------------------------------------------------------------------------
(* GHLClient: the HTTP facade *)

ApiVersion == "2021-07-28"

\* what fetch can produce: a response, or a rejection (kind "neterr");
\* json tells whether the body parses as JSON
Upstream ==
    {[kind |-> "response", status |-> 200, statusText |-> "OK",
      body |-> "{\"id\":\"x\"}", json |-> TRUE],
     [kind |-> "response", status |-> 201, statusText |-> "Created",
      body |-> "{\"id\":\"y\"}", json |-> TRUE],
     [kind |-> "response", status |-> 204, statusText |-> "No Content",
      body |-> "", json |-> FALSE],
     [kind |-> "response", status |-> 404, statusText |-> "Not Found",
      body |-> "<html>not found</html>", json |-> FALSE],
     [kind |-> "response", status |-> 422, statusText |-> "Unprocessable Entity",
      body |-> "{\"message\":\"duplicate fieldKey\"}", json |-> TRUE],
     [kind |-> "neterr", status |-> 0, statusText |-> "",
      body |-> "", json |-> FALSE]}

\* only 200 taken as success
RespOk_Only200(r) == r.status = 200

\* Response.ok
RespOk(r) == r.status >= 200 /\ r.status <= 299

\* the arguments of request(): body and query are sets of <<key, value>>
Request(this, method, path, query, body) ==
    [method |-> method, path |-> path, query |-> query, body |-> body,
     headers |-> [Authorization |-> <<"Bearer ", this.apiKey>>,
                  ContentType |-> "application/json",
                  Accept |-> "application/json",
                  Version |-> ApiVersion]]

\* the message of the Error thrown for a response that is not ok
ApiErrorMessage(r) ==
    <<"GHL API Error ", ToString(r.status), ": ", r.statusText, " - ", r.body>>

Returned(value) == [threw |-> FALSE, value |-> value, message |-> <<>>]
Rejected(message) == [threw |-> TRUE, value |-> "", message |-> message]

\* request(): the value it resolves to or the error it rejects with
request(r) ==
    IF r.kind = "neterr" THEN Rejected(<<"fetch failed">>)
    ELSE IF ~RespOk(r) THEN Rejected(ApiErrorMessage(r))
    ELSE IF ~r.json THEN Rejected(<<"Unexpected end of JSON input">>)
    ELSE Returned(r.body)

NoPairs == {}

getCustomFieldsByObjectKey(this, objectKey, locationId) ==
    Request(this, "GET", <<"/custom-fields/object-key/", objectKey>>,
            {<<"locationId", OrElse(locationId, this.locationId)>>}, NoPairs)

createCustomField(this, data, locationId) ==
    Request(this, "POST", <<"/custom-fields/">>, NoPairs,
            data \cup {<<"locationId", OrElse(locationId, this.locationId)>>})

createCustomFieldFolder(this, data, locationId) ==
    Request(this, "POST", <<"/custom-fields/folder">>, NoPairs,
            data \cup {<<"locationId", OrElse(locationId, this.locationId)>>})

getLocationCustomFields(this, locationId) ==
    Request(this, "GET",
            <<"/locations/", OrElse(locationId, this.locationId), "/customFields">>,
            NoPairs, NoPairs)

getLocationCustomField(this, fieldId, locationId) ==
    Request(this, "GET",
            <<"/locations/", OrElse(locationId, this.locationId), "/customFields/",
              fieldId>>, NoPairs, NoPairs)

createLocationCustomField(this, data, locationId) ==
    Request(this, "POST",
            <<"/locations/", OrElse(locationId, this.locationId), "/customFields">>,
            NoPairs, data)

updateLocationCustomField(this, fieldId, data, locationId) ==
    Request(this, "PUT",
            <<"/locations/", OrElse(locationId, this.locationId), "/customFields/",
              fieldId>>, NoPairs, data)

deleteLocationCustomField(this, fieldId, locationId) ==
    Request(this, "DELETE",
            <<"/locations/", OrElse(locationId, this.locationId), "/customFields/",
              fieldId>>, NoPairs, NoPairs)

getCustomValues(this, locationId) ==
    Request(this, "GET",
            <<"/locations/", OrElse(locationId, this.locationId), "/customValues">>,
            NoPairs, NoPairs)

createCustomValue(this, data, locationId) ==
    Request(this, "POST",
            <<"/locations/", OrElse(locationId, this.locationId), "/customValues">>,
            NoPairs, data)

updateCustomValue(this, valueId, data, locationId) ==
    Request(this, "PUT",
            <<"/locations/", OrElse(locationId, this.locationId), "/customValues/",
              valueId>>, NoPairs, data)

deleteCustomValue(this, valueId, locationId) ==
    Request(this, "DELETE",
            <<"/locations/", OrElse(locationId, this.locationId), "/customValues/",
              valueId>>, NoPairs, NoPairs)

----------------------------------------------------------------------------
(* Field and value tools.  A handler maps the table, the arguments, the    *)
(* statement at which the database throws and the upstream outcome to the  *)
(* set of results it can produce: its response, the requests it issued and *)
(* the upstream outcomes it consumed.                                      *)

Result(response, requests, replies) ==
    [resp |-> response, sent |-> requests, upstream |-> replies]

\* the handler issuing the request once more after it failed
SingleRequest_Retry(rc, req, reply, prefix) ==
    IF rc.threw
    THEN Result(Caught(<<D1Message>>), <<>>, <<>>)
    ELSE LET res == request(reply)
         IN  Result(IF res.threw
                    THEN Caught(res.message)
                    ELSE Reply(FALSE, prefix, res.value),
                    IF res.threw THEN <<req, req>> ELSE <<req>>,
                    IF res.threw THEN <<reply, reply>> ELSE <<reply>>)

\* try { client = await resolveClient(...); result = await client.method(...);
\*       return text } catch (e) { return error text }
\* rc: what resolveClient produced; req: the request the facade method makes
SingleRequest(rc, req, reply, prefix) ==
    IF rc.threw
    THEN Result(Caught(<<D1Message>>), <<>>, <<>>)
    ELSE LET res == request(reply)
         IN  Result(IF res.threw
                    THEN Caught(res.message)
                    ELSE Reply(FALSE, prefix, res.value),
                    <<req>>, <<reply>>)

\* the arguments tool calls are made with, besides locationId
FieldId == "fld_1"
ValueId == "val_1"
ObjectKey == "company"
FieldData == {<<"name", "Field A">>, <<"dataType", "TEXT">>}
FieldUpdate == {<<"name", "Field A">>}
ObjectFieldData ==
    {<<"objectKey", ObjectKey>>, <<"fieldKey", "company.f">>, <<"parentId", "dir_1">>,
     <<"showInForms", "false">>, <<"dataType", "TEXT">>}
FolderData == {<<"objectKey", ObjectKey>>, <<"name", "Folder A">>}
ValueData == {<<"name", "Value A">>, <<"value", "v">>}

ghl_list_contact_custom_fields(rows, a, fault, reply) ==
    {SingleRequest(rc, getLocationCustomFields(rc.client, Undefined),
                   reply, <<>>) :
     rc \in resolveClient(rows, a.locationId, fault)}

ghl_get_contact_custom_field(rows, a, fault, reply) ==
    {SingleRequest(rc, getLocationCustomField(rc.client, FieldId, Undefined),
                   reply, <<>>) :
     rc \in resolveClient(rows, a.locationId, fault)}

ghl_create_contact_custom_field(rows, a, fault, reply) ==
    {SingleRequest(rc, createLocationCustomField(rc.client, FieldData, Undefined),
                   reply, <<"Custom field \"", "Field A", "\" created!\n\n">>) :
     rc \in resolveClient(rows, a.locationId, fault)}

ghl_update_contact_custom_field(rows, a, fault, reply) ==
    {SingleRequest(rc, updateLocationCustomField(rc.client, FieldId, FieldUpdate, Undefined),
                   reply, <<"Custom field updated!\n\n">>) :
     rc \in resolveClient(rows, a.locationId, fault)}

\* the default row's credential used with the tenant id of the call
ghl_delete_contact_custom_field_Mixed(rows, a, fault, reply) ==
    {SingleRequest(rc, deleteLocationCustomField(rc.client, FieldId, a.locationId),
                   reply, <<"Custom field deleted.\n\n">>) :
     rc \in resolveClient(rows, Undefined, fault)}

ghl_delete_contact_custom_field(rows, a, fault, reply) ==
    {SingleRequest(rc, deleteLocationCustomField(rc.client, FieldId, Undefined),
                   reply, <<"Custom field deleted.\n\n">>) :
     rc \in resolveClient(rows, a.locationId, fault)}

ghl_list_object_custom_fields(rows, a, fault, reply) ==
    {SingleRequest(rc, getCustomFieldsByObjectKey(rc.client, ObjectKey, Undefined),
                   reply, <<>>) :
     rc \in resolveClient(rows, a.locationId, fault)}

ghl_create_object_custom_field(rows, a, fault, reply) ==
    {SingleRequest(rc, createCustomField(rc.client, ObjectFieldData, Undefined),
                   reply, <<"Object custom field created!\n\n">>) :
     rc \in resolveClient(rows, a.locationId, fault)}

ghl_create_custom_field_folder(rows, a, fault, reply) ==
    {SingleRequest(rc, createCustomFieldFolder(rc.client, FolderData, Undefined),
                   reply, <<"Folder \"", "Folder A", "\" created!\n\n">>) :
     rc \in resolveClient(rows, a.locationId, fault)}

ghl_list_custom_values(rows, a, fault, reply) ==
    {SingleRequest(rc, getCustomValues(rc.client, Undefined),
                   reply, <<>>) :
     rc \in resolveClient(rows, a.locationId, fault)}

ghl_create_custom_value(rows, a, fault, reply) ==
    {SingleRequest(rc, createCustomValue(rc.client, ValueData, Undefined),
                   reply, <<"Custom value \"", "Value A", "\" created!\n\n">>) :
     rc \in resolveClient(rows, a.locationId, fault)}

ghl_update_custom_value(rows, a, fault, reply) ==
    {SingleRequest(rc, updateCustomValue(rc.client, ValueId, ValueData, Undefined),
                   reply, <<"Custom value updated!\n\n">>) :
     rc \in resolveClient(rows, a.locationId, fault)}

ghl_delete_custom_value(rows, a, fault, reply) ==
    {SingleRequest(rc, deleteCustomValue(rc.client, ValueId, Undefined),
                   reply, <<"Custom value deleted.\n\n">>) :
     rc \in resolveClient(rows, a.locationId, fault)}

----------------------------------------------------------------------------
(* Bulk creation *)

FieldPool == <<"f1", "f2", "f3", "f4">>

\* the field lists handed to the bulk tool
FieldLists == {SubSeq(FieldPool, 1, n) : n \in 0..MaxFields}

\* the record pushed for one field: its creation succeeded or threw
BulkItem(name, res) ==
    IF res.threw
    THEN [name |-> name, success |-> FALSE, error |-> res.message]
    ELSE [name |-> name, success |-> TRUE, data |-> res.value]

\* the loop leaving at the first field that fails
RECURSIVE BulkLoop_Abort(_, _, _)
BulkLoop_Abort(fields, replies, results) ==
    IF fields = <<>>
    THEN results
    ELSE IF request(Head(replies)).threw
    THEN Append(results, BulkItem(Head(fields), request(Head(replies))))
    ELSE BulkLoop_Abort(Tail(fields), Tail(replies),
                        Append(results, BulkItem(Head(fields), request(Head(replies)))))

\* for (const field of fields) { try {...; results.push(ok)} catch {results.push(err)} }
RECURSIVE BulkLoop(_, _, _)
BulkLoop(fields, replies, results) ==
    IF fields = <<>>
    THEN results
    ELSE BulkLoop(Tail(fields), Tail(replies),
                  Append(results, BulkItem(Head(fields), request(Head(replies)))))

Count(results, flag) ==
    Cardinality({i \in 1..Len(results) : results[i].success = flag})

\* the error flag set as soon as one field failed
BulkResponse_ErrorOnFailure(results) ==
    Reply(Count(results, FALSE) > 0,
          <<"Bulk create: ", ToString(Count(results, TRUE)), " succeeded, ",
            ToString(Count(results, FALSE)), " failed.\n\n">>,
          results)

BulkResponse(results) ==
    Reply(FALSE,
          <<"Bulk create: ", ToString(Count(results, TRUE)), " succeeded, ",
            ToString(Count(results, FALSE)), " failed.\n\n">>,
          results)

BulkData(name) == {<<"name", name>>, <<"dataType", "TEXT">>}

\* resolveClient is awaited outside any try block
ghl_bulk_create_contact_custom_fields(rows, a, fault, replies) ==
    {IF rc.threw
     THEN Result(Thrown(<<D1Message>>), <<>>, <<>>)
     ELSE Result(BulkResponse(BulkLoop(a.fields, replies, <<>>)),
                 [i \in 1..Len(a.fields) |->
                     createLocationCustomField(rc.client, BulkData(a.fields[i]),
                                               Undefined)],
                 replies) :
     rc \in resolveClient(rows, a.locationId, fault)}

----------------------------------------------------------------------------
(* The state machine: tool calls run one at a time, each to completion *)

\* what register calls pass as name, accountType and notes
Profiles ==
    {[name |-> "Ab", accountType |-> "sub_account", notes |-> Undefined],
     [name |-> "Ab", accountType |-> "sub_account", notes |-> ""],
     [name |-> "aBc", accountType |-> "agency", notes |-> "vip"]}

AddArgs ==
    {[locationId |-> id, name |-> p.name, apiKey |-> k,
      accountType |-> p.accountType, isDefault |-> d, notes |-> p.notes] :
     id \in Ids, p \in Profiles, k \in Keys, d \in BOOLEAN}

SetDefaultArgs ==
    {[locationId |-> id, name |-> n] :
     id \in OptIds, n \in Patterns \cup {Undefined}}

RemoveArgs == {[locationId |-> id] : id \in Ids}

UpdateTokenArgs == {[locationId |-> id, apiKey |-> k] : id \in Ids, k \in Keys}

FieldArgs == {[locationId |-> id] : id \in OptIds}

BulkArgs == {[locationId |-> id, fields |-> f] : id \in OptIds, f \in FieldLists}

ResolveFaults == {"none", "init", "read"}

NoCall == [tool |-> "none", args |-> [locationId |-> Undefined], fault |-> "none"]

Init ==
    /\ db = {}
    /\ tableExists \in BOOLEAN
    /\ call = NoCall
    /\ resp = Success(<<>>)
    /\ upstream = <<>>
    /\ sent = <<>>
    /\ running = <<>>

\* a registry tool call: it issues no upstream request
Registry(tool, a, fault, outcomes) ==
    \E o \in outcomes :
        /\ db' = o.db
        /\ tableExists' = o.tableExists
        /\ call' = [tool |-> tool, args |-> a, fault |-> fault]
        /\ resp' = o.resp
        /\ upstream' = <<>>
        /\ sent' = <<>>
        /\ running' = running

\* a field/value tool call: it writes nothing to the table
Field(tool, a, fault, results) ==
    \E r \in results :
        /\ db' = initDb(db)
        /\ tableExists' = CreatedAfter(tableExists, fault)
        /\ call' = [tool |-> tool, args |-> a, fault |-> fault]
        /\ resp' = r.resp
        /\ upstream' = r.upstream
        /\ sent' = r.sent
        /\ running' = running

\* the first call of a behaviour: where calls are taken from every table,
\* one call is followed from each
Once(A) == call = NoCall /\ A

Call_ghl_add_sub_account ==
    \E a \in AddArgs, fault \in {"none", "init", "clear", "write"} :
        /\ fault = "clear" => a.isDefault
        /\ Registry("ghl_add_sub_account", a, fault,
                    ghl_add_sub_account(db, tableExists, a, fault))

Call_ghl_list_sub_accounts ==
    \E fault \in {"none", "init", "read"} :
        Registry("ghl_list_sub_accounts", [locationId |-> Undefined], fault,
                 ghl_list_sub_accounts(db, tableExists, fault))

Call_ghl_set_default_account ==
    \E a \in SetDefaultArgs, fault \in Faults :
        Registry("ghl_set_default_account", a, fault,
                 ghl_set_default_account(db, tableExists, a, fault))

Call_ghl_remove_sub_account ==
    \E a \in RemoveArgs, fault \in {"none", "init", "read", "write"} :
        Registry("ghl_remove_sub_account", a, fault,
                 ghl_remove_sub_account(db, tableExists, a, fault))

Call_ghl_update_sub_account_token ==
    \E a \in UpdateTokenArgs, fault \in {"none", "init", "read", "write"} :
        Registry("ghl_update_sub_account_token", a, fault,
                 ghl_update_sub_account_token(db, tableExists, a, fault))

Call_ghl_list_contact_custom_fields ==
    \E a \in FieldArgs, fault \in ResolveFaults, reply \in Upstream :
        Field("ghl_list_contact_custom_fields", a, fault,
              ghl_list_contact_custom_fields(db, a, fault, reply))

Call_ghl_get_contact_custom_field ==
    \E a \in FieldArgs, fault \in ResolveFaults, reply \in Upstream :
        Field("ghl_get_contact_custom_field", a, fault,
              ghl_get_contact_custom_field(db, a, fault, reply))

Call_ghl_create_contact_custom_field ==
    \E a \in FieldArgs, fault \in ResolveFaults, reply \in Upstream :
        Field("ghl_create_contact_custom_field", a, fault,
              ghl_create_contact_custom_field(db, a, fault, reply))

Call_ghl_update_contact_custom_field ==
    \E a \in FieldArgs, fault \in ResolveFaults, reply \in Upstream :
        Field("ghl_update_contact_custom_field", a, fault,
              ghl_update_contact_custom_field(db, a, fault, reply))

Call_ghl_delete_contact_custom_field ==
    \E a \in FieldArgs, fault \in ResolveFaults, reply \in Upstream :
        Field("ghl_delete_contact_custom_field", a, fault,
              ghl_delete_contact_custom_field(db, a, fault, reply))

Call_ghl_bulk_create_contact_custom_fields ==
    \E a \in BulkArgs, fault \in ResolveFaults :
        \E replies \in [1..Len(a.fields) -> Upstream] :
            Field("ghl_bulk_create_contact_custom_fields", a, fault,
                  ghl_bulk_create_contact_custom_fields(db, a, fault, replies))

Call_ghl_list_object_custom_fields ==
    \E a \in FieldArgs, fault \in ResolveFaults, reply \in Upstream :
        Field("ghl_list_object_custom_fields", a, fault,
              ghl_list_object_custom_fields(db, a, fault, reply))

Call_ghl_create_object_custom_field ==
    \E a \in FieldArgs, fault \in ResolveFaults, reply \in Upstream :
        Field("ghl_create_object_custom_field", a, fault,
              ghl_create_object_custom_field(db, a, fault, reply))

Call_ghl_create_custom_field_folder ==
    \E a \in FieldArgs, fault \in ResolveFaults, reply \in Upstream :
        Field("ghl_create_custom_field_folder", a, fault,
              ghl_create_custom_field_folder(db, a, fault, reply))

Call_ghl_list_custom_values ==
    \E a \in FieldArgs, fault \in ResolveFaults, reply \in Upstream :
        Field("ghl_list_custom_values", a, fault,
              ghl_list_custom_values(db, a, fault, reply))

Call_ghl_create_custom_value ==
    \E a \in FieldArgs, fault \in ResolveFaults, reply \in Upstream :
        Field("ghl_create_custom_value", a, fault,
              ghl_create_custom_value(db, a, fault, reply))

Call_ghl_update_custom_value ==
    \E a \in FieldArgs, fault \in ResolveFaults, reply \in Upstream :
        Field("ghl_update_custom_value", a, fault,
              ghl_update_custom_value(db, a, fault, reply))

Call_ghl_delete_custom_value ==
    \E a \in FieldArgs, fault \in ResolveFaults, reply \in Upstream :
        Field("ghl_delete_custom_value", a, fault,
              ghl_delete_custom_value(db, a, fault, reply))

\* the account management tools
Next ==
    \/ Call_ghl_add_sub_account
    \/ Call_ghl_list_sub_accounts
    \/ Call_ghl_set_default_account
    \/ Call_ghl_remove_sub_account
    \/ Call_ghl_update_sub_account_token

Spec == Init /\ [][Next]_vars

\* the columns of a stored row besides its id
RowData ==
    {[name |-> p.name, api_key |-> k, account_type |-> p.accountType,
      is_default |-> d, notes |-> NotesOrNull(p.notes)] :
     p \in Profiles, k \in Keys, d \in {0, 1}}

\* the tables the account management tools can leave behind: one row per
\* id (the primary key); overlapping default-setting calls can leave any
\* number of rows flagged
Registries ==
    UNION {{{Row(id, f[id].name, f[id].api_key, f[id].account_type,
                 f[id].is_default, f[id].notes) : id \in S} :
            f \in [S -> RowData]} :
           S \in SUBSET Ids}

InitAnyRegistry ==
    /\ db \in Registries
    /\ tableExists \in (IF db = {} THEN BOOLEAN ELSE {TRUE})
    /\ call = NoCall
    /\ resp = Success(<<>>)
    /\ upstream = <<>>
    /\ sent = <<>>
    /\ running = <<>>

\* the tables field/value tool calls are taken from: resolveClient reads the
\* id, api_key and is_default columns, so the other columns are held fixed
ToolRegistries ==
    {rows \in Registries :
        \A r \in rows : r.name = "Ab" /\ r.account_type = "sub_account"
                                     /\ r.notes = Null}

InitTools ==
    /\ db \in ToolRegistries
    /\ tableExists \in (IF db = {} THEN BOOLEAN ELSE {TRUE})
    /\ call = NoCall
    /\ resp = Success(<<>>)
    /\ upstream = <<>>
    /\ sent = <<>>
    /\ running = <<>>

\* the field and value tools
NextTools ==
    \/ Once(Call_ghl_list_contact_custom_fields)
    \/ Once(Call_ghl_get_contact_custom_field)
    \/ Once(Call_ghl_create_contact_custom_field)
    \/ Once(Call_ghl_update_contact_custom_field)
    \/ Once(Call_ghl_delete_contact_custom_field)
    \/ Once(Call_ghl_bulk_create_contact_custom_fields)
    \/ Once(Call_ghl_list_object_custom_fields)
    \/ Once(Call_ghl_create_object_custom_field)
    \/ Once(Call_ghl_create_custom_field_folder)
    \/ Once(Call_ghl_list_custom_values)
    \/ Once(Call_ghl_create_custom_value)
    \/ Once(Call_ghl_update_custom_value)
    \/ Once(Call_ghl_delete_custom_value)

SpecTools == InitTools /\ [][NextTools]_vars

\* every table the account management tools reach is one SpecTools starts from
RegistryCovered == db \in Registries /\ (db # {} => tableExists)

\* one account management call, made on any table
NextAnyRegistry ==
    \/ Once(Call_ghl_add_sub_account)
    \/ Once(Call_ghl_list_sub_accounts)
    \/ Once(Call_ghl_set_default_account)
    \/ Once(Call_ghl_remove_sub_account)
    \/ Once(Call_ghl_update_sub_account_token)

SpecAnyRegistry == InitAnyRegistry /\ [][NextAnyRegistry]_vars

RegistryTools ==
    {"ghl_add_sub_account", "ghl_list_sub_accounts", "ghl_set_default_account",
     "ghl_remove_sub_account", "ghl_update_sub_account_token"}

\* the call that follows a completed account management call
After(A) == call.tool \in RegistryTools /\ A

\* an account management call followed by a field/value call
NextSession ==
    \/ Once(Call_ghl_add_sub_account)
    \/ Once(Call_ghl_list_sub_accounts)
    \/ Once(Call_ghl_set_default_account)
    \/ Once(Call_ghl_remove_sub_account)
    \/ Once(Call_ghl_update_sub_account_token)
    \/ After(Call_ghl_list_contact_custom_fields)
    \/ After(Call_ghl_create_custom_value)

SpecSession == InitTools /\ [][NextSession]_vars

----------------------------------------------------------------------------
(* Overlapping calls.  The runtime serves the tool calls of independent     *)
(* sessions at once; a handler gives way at each await, so the statements   *)
(* of two calls interleave statement by statement.  No handler wraps its    *)
(* statements in a transaction.                                             *)

\* a call in flight: the statement it runs next (pc), the account its lookup
\* returned and, once it has returned, its response
Start(tool, a) ==
    [tool |-> tool, args |-> a, pc |-> "init", account |-> {},
     resp |-> Success(<<>>)]

Goto(p, pc) == [p EXCEPT !.pc = pc]

Return(p, response) == [p EXCEPT !.pc = "done", !.resp = response]

\* what one statement leaves behind
Ran(rows, created, p) == [db |-> rows, tableExists |-> created, proc |-> p]

\* the next statement of a ghl_add_sub_account call; ok: it does not throw
AddStmt(rows, created, p, ok) ==
    IF ~ok
    THEN {Ran(rows, created, Return(p, Caught(<<D1Message>>)))}
    ELSE IF p.pc = "init"
    THEN {Ran(initDb(rows), TRUE,
              Goto(p, IF p.args.isDefault THEN "clear" ELSE "write"))}
    ELSE IF p.pc = "clear"
    THEN {Ran(ClearDefaults(rows), created, Goto(p, "write"))}
    ELSE {Ran(InsertOrReplace(rows, BoundRow(p.args)), created,
              Return(p, Success(RegisteredText(p.args))))}

\* the next statement of a ghl_set_default_account call
SetDefaultStmt(rows, created, p, ok) ==
    IF ~ok
    THEN {Ran(rows, created, Return(p, Caught(<<D1Message>>)))}
    ELSE IF p.pc = "init"
    THEN {Ran(initDb(rows), TRUE,
              IF Truthy(p.args.locationId) \/ Truthy(p.args.name)
              THEN Goto(p, "read")
              ELSE Return(p, Failure(NotFoundLong)))}
    ELSE IF p.pc = "read"
    THEN {Ran(rows, created,
              IF account = {}
              THEN Return(p, Failure(NotFoundLong))
              ELSE [Goto(p, "clear") EXCEPT !.account = account]) :
          account \in SetDefaultLookup(rows, p.args)}
    ELSE IF p.pc = "clear"
    THEN {Ran(ClearDefaults(rows), created, Goto(p, "write"))}
    ELSE LET acc == CHOOSE r \in p.account : TRUE
         IN  {Ran(MarkDefault(rows, acc.id), created,
                  Return(p, Success(<<"Default account set to \"", acc.name,
                                      "\" (", acc.id, ")">>)))}

\* the next database statement of a ghl_list_contact_custom_fields call:
\* initDb and the lookup of resolveClient
ListFieldsStmt(rows, created, p, ok) ==
    IF ~ok
    THEN {Ran(rows, created, Return(p, Caught(<<D1Message>>)))}
    ELSE IF p.pc = "init"
    THEN {Ran(initDb(rows), TRUE, Goto(p, "read"))}
    ELSE {Ran(rows, created, [Goto(p, "fetch") EXCEPT !.account = account]) :
          account \in IF Truthy(p.args.locationId)
                      THEN getAccountById(rows, p.args.locationId)
                      ELSE getDefaultAccount(rows)}

Stmt(rows, created, p, ok) ==
    IF p.tool = "ghl_add_sub_account"
    THEN AddStmt(rows, created, p, ok)
    ELSE IF p.tool = "ghl_set_default_account"
    THEN SetDefaultStmt(rows, created, p, ok)
    ELSE ListFieldsStmt(rows, created, p, ok)

\* call i runs its next statement
Step(i, tool) ==
    /\ running[i].tool = tool
    /\ running[i].pc # "done"
    /\ \E ok \in BOOLEAN :
        \E o \in Stmt(db, tableExists, running[i], ok) :
            /\ db' = o.db
            /\ tableExists' = o.tableExists
            /\ running' = [running EXCEPT ![i] = o.proc]
            /\ UNCHANGED <<call, resp, upstream, sent>>

Stmt_ghl_add_sub_account ==
    \E i \in DOMAIN running : Step(i, "ghl_add_sub_account")

Stmt_ghl_set_default_account ==
    \E i \in DOMAIN running : Step(i, "ghl_set_default_account")

\* a ghl_list_contact_custom_fields call runs its next statement; the last
\* one is the request of the client built from the account looked up
Stmt_ghl_list_contact_custom_fields ==
    \E i \in DOMAIN running :
        IF running[i].pc = "fetch"
        THEN /\ running[i].tool = "ghl_list_contact_custom_fields"
             /\ \E reply \in Upstream :
                LET id == running[i].args.locationId
                    client == IF Truthy(id)
                              THEN ResolveById(running[i].account, id)
                              ELSE ResolveDefault(running[i].account)
                    r == SingleRequest(Resolved(client),
                                       getLocationCustomFields(client, Undefined),
                                       reply, <<>>)
                IN  /\ sent' = sent \o r.sent
                    /\ upstream' = upstream \o r.upstream
                    /\ running' = [running EXCEPT ![i] = Return(@, r.resp)]
             /\ UNCHANGED <<db, tableExists, call, resp>>
        ELSE Step(i, "ghl_list_contact_custom_fields")

\* the tables overlapping calls start from: the credential, which no
\* statement of these calls reads, is held fixed
RaceRegistries == {rows \in Registries : \A r \in rows : r.api_key = "pit_1"}

\* the calls that overlap: register calls and set-default calls
RaceCalls ==
    {Start("ghl_add_sub_account", a) :
        a \in {b \in AddArgs : b.apiKey = "pit_2" /\ b.notes # ""}}
    \cup
    {Start("ghl_set_default_account", a) :
        a \in {b \in SetDefaultArgs : b.locationId = Undefined \/ b.name = Undefined}}

InitRace ==
    /\ db \in RaceRegistries
    /\ tableExists \in (IF db = {} THEN BOOLEAN ELSE {TRUE})
    /\ call = NoCall
    /\ resp = Success(<<>>)
    /\ upstream = <<>>
    /\ sent = <<>>
    /\ running \in {<<p, q>> : p, q \in RaceCalls}

NextRace ==
    \/ Stmt_ghl_add_sub_account
    \/ Stmt_ghl_set_default_account

SpecRace == InitRace /\ [][NextRace]_vars

\* a register or set-default call overlapped by a field tool call
InitRaceResolve ==
    /\ db \in ToolRegistries
    /\ tableExists \in (IF db = {} THEN BOOLEAN ELSE {TRUE})
    /\ call = NoCall
    /\ resp = Success(<<>>)
    /\ upstream = <<>>
    /\ sent = <<>>
    /\ running \in {<<p, Start("ghl_list_contact_custom_fields", a)>> :
                        p \in RaceCalls, a \in FieldArgs}

NextRaceResolve ==
    \/ Stmt_ghl_add_sub_account
    \/ Stmt_ghl_set_default_account
    \/ Stmt_ghl_list_contact_custom_fields

SpecRaceResolve == InitRaceResolve /\ [][NextRaceResolve]_vars

----------------------------------------------------------------------------
(* The bulk creation handler, await by await: resolveClient, then for each  *)
(* field the request going out and its outcome coming back, then the return *)

\* issued: the requests sent so far; results: the records pushed so far
BulkStart(a) ==
    [tool |-> "ghl_bulk_create_contact_custom_fields", args |-> a,
     pc |-> "resolve", client |-> GHLClient(Undefined, Undefined),
     issued |-> 0, results |-> <<>>, resp |-> Success(<<>>)]

\* the requests started without waiting for one another
Awaited_NoAwait(p) == TRUE

\* const result = await client.createLocationCustomField(...): the loop body
\* does not go on before the request it made has settled
Awaited(p) == p.issued = Len(p.results)

\* const client = await resolveClient(env, locationId), outside any try
Bulk_resolveClient ==
    /\ running[1].pc = "resolve"
    /\ \E fault \in ResolveFaults :
        \E rc \in resolveClient(db, running[1].args.locationId, fault) :
            /\ db' = initDb(db)
            /\ tableExists' = CreatedAfter(tableExists, fault)
            /\ running' =
                <<IF rc.threw
                  THEN Return(running[1], Thrown(<<D1Message>>))
                  ELSE [Goto(running[1], "loop") EXCEPT !.client = rc.client]>>
    /\ UNCHANGED <<call, resp, upstream, sent>>

\* the loop reaches the next field and calls client.createLocationCustomField
Bulk_createLocationCustomField ==
    /\ running[1].pc = "loop"
    /\ Awaited(running[1])
    /\ running[1].issued < Len(running[1].args.fields)
    /\ sent' = Append(sent,
                      createLocationCustomField(
                          running[1].client,
                          BulkData(running[1].args.fields[running[1].issued + 1]),
                          Undefined))
    /\ running' = <<[running[1] EXCEPT !.issued = @ + 1]>>
    /\ UNCHANGED <<db, tableExists, call, resp, upstream>>

\* the awaited request settles: results.push(...) in the try or in the catch
Bulk_push ==
    /\ running[1].pc = "loop"
    /\ Len(running[1].results) < running[1].issued
    /\ \E reply \in Upstream :
        /\ upstream' = Append(upstream, reply)
        /\ running' =
            <<[running[1] EXCEPT !.results =
                Append(@, BulkItem(running[1].args.fields[Len(@) + 1],
                                   request(reply)))]>>
    /\ UNCHANGED <<db, tableExists, call, resp, sent>>

\* the loop is over: the counts and the records are returned
Bulk_return ==
    /\ running[1].pc = "loop"
    /\ Len(running[1].results) = Len(running[1].args.fields)
    /\ running[1].issued = Len(running[1].args.fields)
    /\ running' = <<Return(running[1], BulkResponse(running[1].results))>>
    /\ UNCHANGED <<db, tableExists, call, resp, upstream, sent>>

InitBulk ==
    /\ db \in ToolRegistries
    /\ tableExists \in (IF db = {} THEN BOOLEAN ELSE {TRUE})
    /\ call = NoCall
    /\ resp = Success(<<>>)
    /\ upstream = <<>>
    /\ sent = <<>>
    /\ running \in {<<BulkStart(a)>> : a \in BulkArgs}

NextBulk ==
    \/ Bulk_resolveClient
    \/ Bulk_createLocationCustomField
    \/ Bulk_push
    \/ Bulk_return

SpecBulk == InitBulk /\ [][NextBulk]_vars

----------------------------------------------------------------------------
(* The single-tenant server: the same field/value tools without the table.  *)
(* Each handler builds its client from the environment and hands the        *)
(* locationId argument to the facade method.                                *)

createClient == GHLClient(EnvApiKey, EnvLocationId)

\* the requests the handler of a tool issues
SingleTenantRequests(tool, a) ==
    CASE tool = "ghl_list_contact_custom_fields" ->
            <<getLocationCustomFields(createClient, a.locationId)>>
      [] tool = "ghl_get_contact_custom_field" ->
            <<getLocationCustomField(createClient, FieldId, a.locationId)>>
      [] tool = "ghl_create_contact_custom_field" ->
            <<createLocationCustomField(createClient, FieldData, a.locationId)>>
      [] tool = "ghl_update_contact_custom_field" ->
            <<updateLocationCustomField(createClient, FieldId, FieldUpdate,
                                        a.locationId)>>
      [] tool = "ghl_delete_contact_custom_field" ->
            <<deleteLocationCustomField(createClient, FieldId, a.locationId)>>
      [] tool = "ghl_bulk_create_contact_custom_fields" ->
            [i \in 1..Len(a.fields) |->
                createLocationCustomField(createClient, BulkData(a.fields[i]),
                                          a.locationId)]
      [] tool = "ghl_list_object_custom_fields" ->
            <<getCustomFieldsByObjectKey(createClient, ObjectKey, a.locationId)>>
      [] tool = "ghl_create_object_custom_field" ->
            <<createCustomField(createClient, ObjectFieldData, a.locationId)>>
      [] tool = "ghl_create_custom_field_folder" ->
            <<createCustomFieldFolder(createClient, FolderData, a.locationId)>>
      [] tool = "ghl_list_custom_values" ->
            <<getCustomValues(createClient, a.locationId)>>
      [] tool = "ghl_create_custom_value" ->
            <<createCustomValue(createClient, ValueData, a.locationId)>>
      [] tool = "ghl_update_custom_value" ->
            <<updateCustomValue(createClient, ValueId, ValueData, a.locationId)>>
      [] tool = "ghl_delete_custom_value" ->
            <<deleteCustomValue(createClient, ValueId, a.locationId)>>

\* the text a handler puts before the JSON of the result
SingleTenantPrefix(tool) ==
    CASE tool = "ghl_create_contact_custom_field" ->
            <<"Custom field \"", "Field A", "\" created successfully!\n\n">>
      [] tool = "ghl_update_contact_custom_field" ->
            <<"Custom field updated successfully!\n\n">>
      [] tool = "ghl_delete_contact_custom_field" -> <<"Custom field deleted.\n\n">>
      [] tool = "ghl_create_object_custom_field" ->
            <<"Object custom field created!\n\n">>
      [] tool = "ghl_create_custom_field_folder" ->
            <<"Folder \"", "Folder A", "\" created!\n\n">>
      [] tool = "ghl_create_custom_value" ->
            <<"Custom value \"", "Value A", "\" created!\n\n">>
      [] tool = "ghl_update_custom_value" -> <<"Custom value updated!\n\n">>
      [] tool = "ghl_delete_custom_value" -> <<"Custom value deleted.\n\n">>
      [] OTHER -> <<>>

\* the response of a handler; replies: the outcomes of its requests
SingleTenantResponse(tool, a, replies) ==
    IF tool = "ghl_bulk_create_contact_custom_fields"
    THEN LET results == BulkLoop(a.fields, replies, <<>>)
         IN  Reply(FALSE,
                   <<"Bulk create complete: ", ToString(Count(results, TRUE)),
                     " succeeded, ", ToString(Count(results, FALSE)),
                     " failed.\n\n">>,
                   results)
    ELSE LET res == request(replies[1])
         IN  IF res.threw
             THEN Caught(res.message)
             ELSE Reply(FALSE, SingleTenantPrefix(tool), res.value)

\* the single-tenant server receives the call the multi-tenant server has
\* handled, and its requests meet the same upstream outcomes
SingleTenant_call ==
    /\ call # NoCall /\ call.tool \notin RegistryTools
    /\ running = <<>>
    /\ Len(upstream) = Len(SingleTenantRequests(call.tool, call.args))
    /\ running' = <<[server |-> "single-tenant", tool |-> call.tool,
                     args |-> call.args,
                     sent |-> SingleTenantRequests(call.tool, call.args),
                     upstream |-> upstream,
                     resp |-> SingleTenantResponse(call.tool, call.args, upstream)]>>
    /\ UNCHANGED <<db, tableExists, call, resp, upstream, sent>>

\* a field/value call handled by both servers
NextBoth ==
    \/ NextTools
    \/ SingleTenant_call

SpecBoth == InitTools /\ [][NextBoth]_vars

----------------------------------------------------------------------------
(* Properties *)

Defaults(rows) == {r \in rows : r.is_default = 1}

Succeeded == ~resp.thrown /\ ~resp.isError

\* C1: with calls run one at a time, after a successful ghl_add_sub_account
\* call with isDefault = true exactly one row has is_default = 1, whatever
\* the table held before (checked from every table, two flagged rows included).
C1_ExactlyOneDefaultAfterRegister ==
    (call.tool = "ghl_add_sub_account" /\ call.args.isDefault /\ Succeeded)
        => Cardinality(Defaults(db)) = 1

\* a default registration made next to another row
C1_Witness ==
    /\ call.tool = "ghl_add_sub_account" /\ call.args.isDefault /\ Succeeded
    /\ Cardinality(db) = 2
    /\ Defaults(db) = {r \in db : r.id = call.args.locationId}

\* C2: in every state reached from the empty table by register, set-default,
\* remove and rotate calls run one at a time, at most one row has is_default = 1.
C2_AtMostOneDefault == Cardinality(Defaults(db)) <= 1

\* set-default has moved the flag to one of two rows
C2_Witness ==
    /\ call.tool = "ghl_set_default_account" /\ Succeeded
    /\ Cardinality(db) = 2
    /\ Cardinality(Defaults(db)) = 1

----------------------------------------------------------------------------
(* What a field/value tool call shows of the resolved pair: the bearer     *)
(* token and the tenant id of the request it issued.                       *)

SingleTools ==
    {"ghl_list_contact_custom_fields", "ghl_get_contact_custom_field",
     "ghl_create_contact_custom_field", "ghl_update_contact_custom_field",
     "ghl_delete_contact_custom_field", "ghl_list_object_custom_fields",
     "ghl_create_object_custom_field", "ghl_create_custom_field_folder",
     "ghl_list_custom_values", "ghl_create_custom_value",
     "ghl_update_custom_value", "ghl_delete_custom_value"}

FieldTools == SingleTools \cup {"ghl_bulk_create_contact_custom_fields"}

BearerOf(req) == req.headers.Authorization[2]

\* the tenant id: in the path, else in the query, else in the body
TenantOf(req) ==
    IF req.path[1] = "/locations/"
    THEN req.path[2]
    ELSE (CHOOSE p \in req.query \cup req.body : p[1] = "locationId")[2]

\* a field/value tool call whose resolution ran without a database failure
\* and which issued a request
Resolving ==
    call.tool \in FieldTools /\ call.fault = "none" /\ Len(sent) >= 1

\* every request of the call carries this credential and this tenant id
Uses(apiKey, locationId) ==
    \A i \in 1..Len(sent) :
        BearerOf(sent[i]) = apiKey /\ TenantOf(sent[i]) = locationId

Registered(id) == \E r \in db : r.id = id

\* C3: resolving with an explicit identifier that has a registration yields
\* that registration's credential and identifier, whatever row is the default
\* and whatever the fallback values are.
C3_ExplicitRegisteredUsesOwnCredential ==
    (Resolving /\ call.args.locationId # Undefined
               /\ Registered(call.args.locationId))
        => \E r \in db : r.id = call.args.locationId /\ Uses(r.api_key, r.id)

\* the same for the identifiers that are not the empty string: these the
\* resolver does look up
ResolveRegisteredNonEmpty ==
    (Resolving /\ Truthy(call.args.locationId)
               /\ Registered(call.args.locationId))
        => \E r \in db : r.id = call.args.locationId /\ Uses(r.api_key, r.id)

C5_NoIdUsesDefault ==
    (Resolving /\ call.args.locationId = Undefined /\ Defaults(db) # {})
        => \E r \in Defaults(db) : Uses(r.api_key, r.id)

\* no identifier, one default row among two
C5_Witness ==
    /\ Resolving /\ call.args.locationId = Undefined
    /\ Cardinality(db) = 2 /\ Cardinality(Defaults(db)) = 1
    /\ \E r \in Defaults(db) : Uses(r.api_key, r.id)

\* C6: resolving with no identifier while no registration is flagged default
\* (the empty table included) yields exactly the fallback credential and the
\* fallback tenant id.
C6_NoIdNoDefaultUsesFallback ==
    (Resolving /\ call.args.locationId = Undefined /\ Defaults(db) = {})
        => Uses(EnvApiKey, EnvLocationId)

\* no identifier, rows registered, none of them the default
C6_Witness ==
    /\ Resolving /\ call.args.locationId = Undefined
    /\ db # {} /\ Defaults(db) = {}
    /\ Uses(EnvApiKey, EnvLocationId)

----------------------------------------------------------------------------

\* C7: a ghl_remove_sub_account call for an identifier that has no row leaves
\* every row as it was and returns an error response, which is the not-found
\* text whenever the database statements themselves ran.
C7_RemoveMissingChangesNothing ==
    [][(call'.tool = "ghl_remove_sub_account"
            /\ ~Registered(call'.args.locationId))
        => /\ db' = db
           /\ ~resp'.thrown /\ resp'.isError
           /\ call'.fault = "none" => resp'.text = NotFoundShort]_vars

\* not-found returned while other rows, a default among them, are registered
C7_Witness ==
    /\ call.tool = "ghl_remove_sub_account" /\ call.fault = "none"
    /\ resp.isError /\ resp.text = NotFoundShort
    /\ ~Registered(call.args.locationId)
    /\ Defaults(db) # {}

----------------------------------------------------------------------------

Range(f) == {f[i] : i \in DOMAIN f}

\* a field creation fails when fetch rejects, the response is not 2xx, or the
\* body of a 2xx response does not parse
ItemFails(reply) ==
    \/ reply.kind = "neterr"
    \/ reply.status < 200 \/ reply.status > 299
    \/ ~reply.json

\* the message of the error a failed field creation raised
ItemError(reply) ==
    IF reply.kind = "neterr" THEN <<"fetch failed">>
    ELSE IF reply.status < 200 \/ reply.status > 299
    THEN <<"GHL API Error ", ToString(reply.status), ": ", reply.statusText,
           " - ", reply.body>>
    ELSE <<"Unexpected end of JSON input">>

BulkReturned ==
    call.tool = "ghl_bulk_create_contact_custom_fields" /\ ~resp.thrown

FailedItems == {i \in 1..Len(upstream) : ItemFails(upstream[i])}

\* C8: a bulk call with N field definitions of which M fail reports M
\* failures and N - M successes, one record per field, and each failed field's
\* record carries the message of that field's error unchanged.
C8_BulkCountsAndMessages ==
    BulkReturned =>
        LET N == Len(call.args.fields)
            M == Cardinality(FailedItems)
        IN  /\ Len(upstream) = N
            /\ Len(resp.json) = N
            /\ resp.text = <<"Bulk create: ", ToString(N - M), " succeeded, ",
                             ToString(M), " failed.\n\n">>
            /\ \A i \in 1..N :
                /\ resp.json[i].name = call.args.fields[i]
                /\ resp.json[i].success = (i \notin FailedItems)
                /\ i \in FailedItems => resp.json[i].error = ItemError(upstream[i])

\* a failed field followed by a created one
C8_Witness ==
    /\ BulkReturned
    /\ Len(call.args.fields) = 2
    /\ FailedItems = {1}
    /\ upstream[1].kind = "response"
    /\ resp.json[1].error = ItemError(upstream[1])
    /\ resp.json[2].success

----------------------------------------------------------------------------

\* a single-request tool call that received an HTTP response
SingleResponded ==
    /\ call.tool \in SingleTools
    /\ Len(upstream) = 1
    /\ upstream[1].kind = "response"

Is2xx(reply) == reply.status >= 200 /\ reply.status <= 299

\* a non-2xx response gives an error response naming status, status text and body
ErrorSurfaced ==
    (SingleResponded /\ ~Is2xx(upstream[1]))
        => /\ ~resp.thrown /\ resp.isError
           /\ {ToString(upstream[1].status), upstream[1].statusText,
               upstream[1].body} \subseteq Range(resp.text)

\* C9 as stated: for every single-request field/value tool a non-2xx response
\* gives an error response whose text holds the status code, the status text
\* and the raw body, and a 2xx response gives a response without the error flag.
C9_AsStated ==
    /\ ErrorSurfaced
    /\ (SingleResponded /\ Is2xx(upstream[1])) => Succeeded

\* C9: for every single-request field/value tool a non-2xx response gives an
\* error response whose text holds the status code, the status text and the
\* raw body, and a 2xx response whose body parses as JSON gives a response
\* without the error flag.
C9_StatusDecidesErrorFlag ==
    /\ ErrorSurfaced
    /\ (SingleResponded /\ Is2xx(upstream[1]) /\ upstream[1].json) => Succeeded

\* a 422 surfaced by one tool and a 201 accepted by another
C9_Witness ==
    /\ SingleResponded
    /\ \/ /\ call.tool = "ghl_create_contact_custom_field"
          /\ upstream[1].status = 422
          /\ resp.isError
          /\ "422" \in Range(resp.text)
          /\ "{\"message\":\"duplicate fieldKey\"}" \in Range(resp.text)
       \/ /\ call.tool = "ghl_delete_custom_value"
          /\ upstream[1].status = 201
          /\ Succeeded

----------------------------------------------------------------------------

\* C10: no tool handler, the bulk handler included, lets a failure of the
\* database, of tenant resolution or of the upstream call leave the handler:
\* each returns an error response instead.
C10_NoFailureLeavesHandler ==
    /\ ~resp.thrown
    /\ (call.tool # "none" /\ call.fault # "none") => resp.isError

\* the same for the handlers other than the bulk one
CaughtOutsideBulk ==
    call.tool \notin {"none", "ghl_bulk_create_contact_custom_fields"}
        => /\ ~resp.thrown
           /\ call.fault # "none" => resp.isError

----------------------------------------------------------------------------

SucceededIn(response) == ~response.thrown /\ ~response.isError

\* C13: with calls run one at a time, a successful ghl_add_sub_account call
\* with isDefault = true for identifier B leaves B flagged and every other
\* row, a former default A among them, unflagged and otherwise as it was;
\* a ghl_list_sub_accounts call that follows shows B with is_default "YES"
\* and every other row with "no".
C13_NewDefaultReplacesOld ==
    [][/\ (/\ call'.tool = "ghl_add_sub_account" /\ call'.args.isDefault
            /\ SucceededIn(resp'))
           => /\ \A r \in db' :
                    r.is_default = (IF r.id = call'.args.locationId THEN 1 ELSE 0)
              /\ \E r \in db' : r.id = call'.args.locationId
              /\ \A a \in db : a.id # call'.args.locationId
                    => [a EXCEPT !.is_default = 0] \in db'
       /\ (/\ call.tool = "ghl_add_sub_account" /\ call.args.isDefault
            /\ SucceededIn(resp)
            /\ call'.tool = "ghl_list_sub_accounts" /\ SucceededIn(resp'))
           => /\ {e.id : e \in Range(resp'.json)} = {r.id : r \in db}
              /\ \A e \in Range(resp'.json) :
                    e.is_default = (IF e.id = call.args.locationId
                                    THEN "YES" ELSE "no")]_vars

\* the listing of two registrations, one shown "YES" and the other "no"
C13_Witness ==
    /\ call.tool = "ghl_list_sub_accounts" /\ Succeeded
    /\ Len(resp.json) = 2
    /\ \E i, j \in 1..2 :
          /\ resp.json[i].is_default = "YES" /\ resp.json[j].is_default = "no"
          /\ resp.json[i].id # resp.json[j].id
          /\ \E r \in db : r.id = resp.json[i].id /\ r.is_default = 1

----------------------------------------------------------------------------

\* credentials other than the ones calls supply
OtherKeys == {"pit_9"}

\* the tables that differ from rows in credential values only
Rekeyed(rows) ==
    {{[r EXCEPT !.api_key = f[r.id]] : r \in rows} :
     f \in [{r.id : r \in rows} -> Keys \cup OtherKeys]}

\* every string a response shows: the pieces of its text and the values of
\* the records it embeds
Shown(response) ==
    Range(response.text) \cup
    UNION {{e[f] : f \in DOMAIN e} : e \in Range(response.json)}

\* C14: the response of ghl_list_sub_accounts is the same for any two tables
\* that differ in credential values only, and no success response of an
\* account management tool shows a credential stored before or after
\* the call.
C14_CredentialsNeverShown ==
    [][/\ (call'.tool = "ghl_list_sub_accounts" /\ call'.fault = "none")
           => \A rows \in Rekeyed(db) :
                resp' \in {o.resp : o \in ghl_list_sub_accounts(rows, TRUE, "none")}
       /\ (call'.tool \in RegistryTools /\ SucceededIn(resp'))
           => \A r \in db \cup db' : r.api_key \notin Shown(resp')]_vars

\* a listing of two registrations holding different credentials
C14_Witness ==
    /\ call.tool = "ghl_list_sub_accounts" /\ Succeeded
    /\ Len(resp.json) = 2
    /\ \E r, q \in db : r.api_key # q.api_key
    /\ \A r \in db : r.api_key \notin Shown(resp)

----------------------------------------------------------------------------

\* C16: a successful ghl_remove_sub_account call for identifier X deletes the
\* row with id X and no other: every other row keeps all its columns, the
\* default flag and the credential among them, and the call issues no
\* upstream request.
C16_RemoveDeletesOnlyTarget ==
    [][(call'.tool = "ghl_remove_sub_account" /\ SucceededIn(resp'))
        => /\ db' = {r \in db : r.id # call'.args.locationId}
           /\ \E r \in db : r.id = call'.args.locationId
           /\ sent' = <<>> /\ upstream' = <<>>]_vars

\* a removal that left another registration, the default, in place
C16_Witness ==
    /\ call.tool = "ghl_remove_sub_account" /\ Succeeded
    /\ ~Registered(call.args.locationId)
    /\ Cardinality(db) = 1 /\ Cardinality(Defaults(db)) = 1
    /\ sent = <<>>

----------------------------------------------------------------------------

WithId(rows, id) == {r \in rows : r.id = id}

UniqueIds(rows) == \A r, q \in rows : r.id = q.id => r = q

\* a successful register call left one row for its identifier, holding the
\* supplied name, credential and category and the given notes; the row count
\* grew by one exactly when the identifier was new
Upserted(before, after, a, notes) ==
    /\ Cardinality(WithId(after, a.locationId)) = 1
    /\ \A r \in WithId(after, a.locationId) :
          /\ r.name = a.name /\ r.api_key = a.apiKey
          /\ r.account_type = a.accountType /\ r.notes = notes
    /\ Cardinality(after) =
          Cardinality(before) + (IF WithId(before, a.locationId) = {} THEN 1 ELSE 0)

\* C17 as stated: after a successful register call for identifier X the table
\* holds exactly one row with id X carrying the supplied name, credential,
\* category and notes, whether or not X was registered before; the row count
\* grows by one only when X was new, and no two rows ever share an id.
C17_AsStated ==
    [][/\ UniqueIds(db')
       /\ (call'.tool = "ghl_add_sub_account" /\ SucceededIn(resp'))
           => Upserted(db, db', call'.args,
                       IF call'.args.notes = Undefined
                       THEN Null ELSE call'.args.notes)]_vars

\* C17: the same, with empty notes stored like omitted notes, as NULL.
C17_UpsertKeyedByIdentifier ==
    [][/\ UniqueIds(db')
       /\ (call'.tool = "ghl_add_sub_account" /\ SucceededIn(resp'))
           => Upserted(db, db', call'.args,
                       IF call'.args.notes \in {Undefined, ""}
                       THEN Null ELSE call'.args.notes)]_vars

\* a registration overwritten with another name, credential, category and notes
C17_Witness ==
    /\ call.tool = "ghl_add_sub_account" /\ Succeeded
    /\ Cardinality(db) = 2
    /\ \E r \in db :
          /\ r.id = call.args.locationId
          /\ r.name = "aBc" /\ r.api_key = "pit_2"
          /\ r.account_type = "agency" /\ r.notes = "vip"

----------------------------------------------------------------------------

\* C18: no tool call retries an upstream request: a single-request
\* field/value tool issues at most one request, also when that request
\* failed; the bulk tool issues at most one request per field definition, in
\* the order of the definitions, and exactly one per definition whenever
\* tenant resolution did not fail.
C18_NoRetry ==
    /\ call.tool \in SingleTools => Len(sent) <= 1 /\ Len(upstream) = Len(sent)
    /\ call.tool = "ghl_bulk_create_contact_custom_fields"
        => /\ Len(sent) \in {0, Len(call.args.fields)}
           /\ Len(upstream) = Len(sent)
           /\ call.fault = "none" => Len(sent) = Len(call.args.fields)
           /\ \A i \in 1..Len(sent) :
                /\ sent[i].method = "POST"
                /\ <<"name", call.args.fields[i]>> \in sent[i].body

\* a single-request tool whose one request failed
C18_Witness ==
    /\ call.tool \in SingleTools
    /\ Len(sent) = 1 /\ ItemFails(upstream[1])
    /\ resp.isError

----------------------------------------------------------------------------

\* the name contains the text, compared case-insensitively
ContainsText(name, text) == Contains(Lower(Chars(name)), Lower(Chars(text)))

\* the text holds none of LIKE's wildcard characters
PlainText(text) == "%" \notin Range(Chars(text)) /\ "_" \notin Range(Chars(text))

SetDefaultByName ==
    /\ call.tool = "ghl_set_default_account"
    /\ call.args.locationId = Undefined /\ call.args.name # Undefined
    /\ Succeeded

\* C19: ghl_set_default_account called with a name and no identifier selects
\* a registration whose name contains the given text, compared
\* case-insensitively; on success (calls run one at a time) the selected
\* registration is flagged default and no other row is.
C19_NameMatchSelectsDefault ==
    SetDefaultByName
        => \E r \in db :
             /\ ContainsText(r.name, call.args.name)
             /\ Defaults(db) = {r}
             /\ resp.text = <<"Default account set to \"", r.name, "\" (", r.id, ")">>

\* the same for the texts without % and _: for these LIKE is containment
SetDefaultByPlainName ==
    (SetDefaultByName /\ PlainText(call.args.name))
        => \E r \in db :
             /\ ContainsText(r.name, call.args.name)
             /\ Defaults(db) = {r}
             /\ resp.text = <<"Default account set to \"", r.name, "\" (", r.id, ")">>

----------------------------------------------------------------------------

\* what a set-default or rotate call targets has no registration: the
\* identifier it gives, if any, is not registered and the name it gives, if
\* any, is contained in no registered name
NoMatch(rows, tool, a) ==
    IF tool = "ghl_update_sub_account_token"
    THEN WithId(rows, a.locationId) = {}
    ELSE /\ tool = "ghl_set_default_account"
         /\ a.locationId = Undefined \/ WithId(rows, a.locationId) = {}
         /\ a.name = Undefined \/ \A r \in rows : ~ContainsText(r.name, a.name)

\* an error response, the not-found text when the database did not fail,
\* and the table as it was
NotFoundUnchanged(tool, fault, response, before, after) ==
    /\ ~response.thrown /\ response.isError
    /\ fault = "none"
        => response.text = (IF tool = "ghl_update_sub_account_token"
                            THEN NotFoundShort ELSE NotFoundLong)
    /\ after = before

\* C20: ghl_set_default_account and ghl_update_sub_account_token called for
\* an identifier or name that no registration matches (and set-default
\* called with neither) return an error-flagged not-found response and leave
\* the table unchanged: no row is created, no credential changes and an
\* existing default keeps its flag.
C20_NoMatchChangesNothing ==
    [][NoMatch(db, call'.tool, call'.args)
        => NotFoundUnchanged(call'.tool, call'.fault, resp', db, db')]_vars

\* the same for the name texts without % and _
NoMatchPlainChangesNothing ==
    [][(/\ NoMatch(db, call'.tool, call'.args)
        /\ call'.tool = "ghl_set_default_account" /\ call'.args.name # Undefined
             => PlainText(call'.args.name))
        => NotFoundUnchanged(call'.tool, call'.fault, resp', db, db')]_vars

----------------------------------------------------------------------------

UsesIn(requests, apiKey, locationId) ==
    \A i \in 1..Len(requests) :
        BearerOf(requests[i]) = apiKey /\ TenantOf(requests[i]) = locationId

\* a field/value call, resolving without a database failure, follows a
\* successful call of the given account management tool
ResolvesAfter(tool) ==
    /\ call.tool = tool /\ Succeeded
    /\ Resolving'

\* the resolution that follows a rotate, a remove or a set-default of X
\* reads the table that call left, for the identifiers X among ids
NoStaleRegistryData(ids) ==
    /\ (/\ ResolvesAfter("ghl_update_sub_account_token")
         /\ call.args.locationId \in ids
         /\ call'.args.locationId = call.args.locationId)
        => UsesIn(sent', call.args.apiKey, call.args.locationId)
    /\ (/\ ResolvesAfter("ghl_remove_sub_account")
         /\ call.args.locationId \in ids
         /\ call'.args.locationId = call.args.locationId)
        => \A i \in 1..Len(sent') : BearerOf(sent'[i]) = EnvApiKey
    /\ (/\ ResolvesAfter("ghl_set_default_account")
         /\ call'.args.locationId = Undefined)
        => \E r \in db :
             /\ resp.text = <<"Default account set to \"", r.name, "\" (", r.id, ")">>
             /\ r.id \in ids => UsesIn(sent', r.api_key, r.id)

\* C15: resolution never uses registry data from an earlier call: after a
\* completed rotate for identifier X the next resolution of X yields the new
\* credential; after a completed remove of X the next resolution of X yields
\* the fallback credential; after a completed set-default to X the next
\* resolution with no identifier yields the credential of X.
C15_NoStaleRegistryData == [][NoStaleRegistryData(Ids)]_vars

\* the same for the identifiers that are not the empty string
NoStaleRegistryDataNonEmpty == [][NoStaleRegistryData({id \in Ids : Truthy(id)})]_vars

----------------------------------------------------------------------------
(* Overlapping default-setting calls *)

\* where overlapping calls can end when every statement of both runs, none
\* throwing: one element per interleaving of the statements
RECURSIVE Interleavings(_, _, _)
Interleavings(rows, created, procs) ==
    IF \A i \in DOMAIN procs : procs[i].pc = "done"
    THEN {[db |-> rows, procs |-> procs]}
    ELSE UNION {UNION {Interleavings(o.db, o.tableExists,
                                     [procs EXCEPT ![i] = o.proc]) :
                       o \in Stmt(rows, created, procs[i], TRUE)} :
                i \in {j \in DOMAIN procs : procs[j].pc # "done"}}

\* a register call with isDefault = true, or a set-default call
DefaultSetting(p) ==
    IF p.tool = "ghl_add_sub_account" THEN p.args.isDefault
    ELSE p.tool = "ghl_set_default_account"

\* the identifiers of the registrations the call may flag, seen from rows
TargetsAt(rows, p) ==
    IF p.tool = "ghl_add_sub_account" THEN {p.args.locationId}
    ELSE {r.id : r \in UNION SetDefaultLookup(rows, p.args)}

\* the identifier of the registration the completed call flagged
Selected(p) ==
    IF p.tool = "ghl_add_sub_account" THEN p.args.locationId
    ELSE (CHOOSE r \in p.account : TRUE).id

\* two calls are about to run their first statements
RaceStart ==
    Len(running) = 2 /\ \A i \in 1..2 : running[i].pc = "init"

\* both calls have returned, each with its success response
RaceDone(procs) ==
    Len(procs) = 2 /\ \A i \in 1..2 : procs[i].pc = "done"
                                       /\ SucceededIn(procs[i].resp)

\* C11: when two default-setting calls (register with isDefault = true, or
\* set-default) for two different registrations overlap, there is an
\* interleaving of their statements after which, both calls having
\* completed, two rows are flagged default: the two registrations.
C11_RaceCanLeaveTwoDefaults ==
    (/\ RaceStart
     /\ \A i \in 1..2 : /\ DefaultSetting(running[i])
                         /\ Cardinality(TargetsAt(db, running[i])) = 1
     /\ TargetsAt(db, running[1]) # TargetsAt(db, running[2]))
        => \E f \in Interleavings(db, tableExists, running) :
             /\ RaceDone(f.procs)
             /\ {r.id : r \in Defaults(f.db)} =
                    TargetsAt(db, running[1]) \cup TargetsAt(db, running[2])

\* a register call and a set-default call have both returned success and
\* the two registrations are both flagged
C11_Witness ==
    /\ RaceDone(running)
    /\ running[1].tool = "ghl_add_sub_account" /\ running[1].args.isDefault
    /\ running[2].tool = "ghl_set_default_account"
    /\ Selected(running[1]) # Selected(running[2])
    /\ {r.id : r \in Defaults(db)} = {Selected(running[1]), Selected(running[2])}

\* C12 as stated: when two default-setting calls overlap, there is an
\* interleaving of their statements after which, both calls having
\* completed, no row is flagged default.
C12_AsStated ==
    (RaceStart /\ \A i \in 1..2 : DefaultSetting(running[i]))
        => \E f \in Interleavings(db, tableExists, running) :
             Defaults(f.db) = {}

\* C12: when two default-setting calls overlap, then in every interleaving
\* of their statements, once both calls have completed with success, at
\* least one row is flagged default, and every flagged row is one the two
\* calls selected.
C12_RaceLeavesSomeDefault ==
    (RaceDone(running) /\ \A i \in 1..2 : DefaultSetting(running[i]))
        => /\ Defaults(db) # {}
           /\ {r.id : r \in Defaults(db)}
                \subseteq {Selected(running[1]), Selected(running[2])}

\* two set-default calls for different registrations have both returned
\* success and one registration is flagged
C12_Witness ==
    /\ RaceDone(running)
    /\ \A i \in 1..2 : running[i].tool = "ghl_set_default_account"
    /\ Selected(running[1]) # Selected(running[2])
    /\ Cardinality(db) = 2
    /\ Cardinality(Defaults(db)) = 1

----------------------------------------------------------------------------

\* C21: a field/value tool call, whose only database work is tenant
\* resolution, leaves every row of sub_accounts exactly as it was, with or
\* without an identifier; the table-creation statement it runs first leaves an
\* existing table and its rows alone, the table exists once that statement
\* ran, and with no database failure the call gets past resolution to its
\* upstream request.
C21_ResolutionChangesNoRow ==
    [][call'.tool \in FieldTools
        => /\ db' = db
           /\ call'.fault # "init" => tableExists'
           /\ (call'.fault = "none" /\ call'.tool \in SingleTools)
                => Len(sent') = 1]_vars

\* a resolution by identifier on a table of two rows, one of them the default
C21_Witness ==
    /\ Resolving /\ Truthy(call.args.locationId)
    /\ Registered(call.args.locationId)
    /\ tableExists
    /\ Cardinality(db) = 2 /\ Cardinality(Defaults(db)) = 1

----------------------------------------------------------------------------

\* the bulk call in flight
InBulk ==
    running # <<>> /\ running[1].tool = "ghl_bulk_create_contact_custom_fields"

\* C22: the bulk tool handles the field definitions one after another in
\* input order: at most one request is outstanding, so the request for item
\* i+1 is not issued before item i has succeeded or failed; it goes on after
\* a failed item; and it returns exactly one record per input item, in input
\* order.
C22_BulkSequentialInOrder ==
    InBulk =>
        LET p == running[1]
            N == Len(p.args.fields)
        IN  /\ Len(sent) = p.issued
            /\ Len(upstream) = Len(p.results)
            /\ Len(sent) - Len(upstream) \in {0, 1}
            /\ \A i \in 1..Len(sent) :
                <<"name", p.args.fields[i]>> \in sent[i].body
            /\ \A i \in 1..Len(p.results) :
                /\ p.results[i].name = p.args.fields[i]
                /\ p.results[i].success = ~ItemFails(upstream[i])
            /\ (p.pc = "done" /\ ~p.resp.thrown)
                => /\ Len(sent) = N /\ Len(upstream) = N
                   /\ Len(p.resp.json) = N
                   /\ \A i \in 1..N : p.resp.json[i] = p.results[i]
                   /\ p.resp = BulkResponse(BulkLoop(p.args.fields, upstream, <<>>))

\* returned after the first field failed and the second was created
C22_Witness ==
    /\ InBulk
    /\ running[1].pc = "done" /\ ~running[1].resp.thrown
    /\ Len(running[1].args.fields) = 2
    /\ Len(sent) = 2 /\ Len(upstream) = 2
    /\ ItemFails(upstream[1]) /\ ~ItemFails(upstream[2])
    /\ ~running[1].resp.json[1].success /\ running[1].resp.json[2].success

----------------------------------------------------------------------------

\* C23: a successful ghl_update_sub_account_token call for identifier X
\* changes only the stored credential of X's row: that row keeps its name,
\* category, notes and default flag and now holds the given credential, and
\* every other row is unchanged.
C23_RotateChangesOnlyCredential ==
    [][(call'.tool = "ghl_update_sub_account_token" /\ SucceededIn(resp'))
        => /\ \A r \in db : r.id # call'.args.locationId => r \in db'
           /\ Cardinality(db') = Cardinality(db)
           /\ \E old \in db, new \in db' :
                /\ old.id = call'.args.locationId
                /\ new.id = old.id
                /\ new.api_key = call'.args.apiKey
                /\ new.name = old.name
                /\ new.account_type = old.account_type
                /\ new.notes = old.notes
                /\ new.is_default = old.is_default]_vars

\* the default row re-keyed beside a row that holds another credential
C23_Witness ==
    /\ call.tool = "ghl_update_sub_account_token" /\ Succeeded
    /\ Cardinality(db) = 2
    /\ \E x \in db, y \in db :
        /\ x.id = call.args.locationId /\ y.id # x.id
        /\ x.api_key = call.args.apiKey /\ y.api_key # x.api_key
        /\ x.is_default = 1 /\ x.notes = "vip"

----------------------------------------------------------------------------

\* both servers have handled the call, the multi-tenant one on an empty table
BothRanOnEmpty ==
    /\ running # <<>> /\ "server" \in DOMAIN running[1]
    /\ call.fault = "none"
    /\ db = {}

\* request by request, both servers send the fallback credential and this
\* tenant id
BothUse(locationId) ==
    /\ Len(sent) = Len(running[1].sent)
    /\ \A i \in 1..Len(sent) :
        /\ BearerOf(sent[i]) = EnvApiKey
        /\ BearerOf(running[1].sent[i]) = EnvApiKey
        /\ TenantOf(sent[i]) = locationId
        /\ TenantOf(running[1].sent[i]) = locationId

\* C24 as stated: with an empty table, for every field/value tool call both
\* servers send their requests with the fallback credential and the same
\* tenant id: the supplied locationId if one is given, else the fallback
\* tenant id.
C24_AsStated ==
    BothRanOnEmpty
        => BothUse(IF call.args.locationId # Undefined
                   THEN call.args.locationId ELSE EnvLocationId)

\* C24: with an empty table, for every field/value tool call both servers
\* send their requests with the fallback credential and the same tenant id:
\* the supplied locationId if one is given and is not the empty string, else
\* the fallback tenant id.
C24_EmptyRegistrySameAsSingleTenant ==
    BothRanOnEmpty
        => BothUse(IF Truthy(call.args.locationId)
                   THEN call.args.locationId ELSE EnvLocationId)

\* both servers deleting a field of the tenant the call names
C24_Witness ==
    /\ BothRanOnEmpty
    /\ call.tool = "ghl_delete_contact_custom_field"
    /\ call.args.locationId = "loc_1"
    /\ Len(sent) = 1
    /\ BothUse("loc_1")

----------------------------------------------------------------------------

\* C25: the bearer credential and the tenant id of every request of a
\* field/value tool call are the two halves of the one pair its resolution
\* produced; so a request that carries the stored credential of a
\* registration names that registration's identifier as tenant id in its
\* path, query or body, never another tenant's.
C25_CredentialAndTenantFromOnePair ==
    Resolving =>
        /\ \E rc \in resolveClient(db, call.args.locationId, "none") :
                Uses(rc.client.apiKey, rc.client.locationId)
        /\ \A i \in 1..Len(sent) :
            (\E r \in db : r.api_key = BearerOf(sent[i]))
                => \E r \in db : /\ r.api_key = BearerOf(sent[i])
                                  /\ r.id = TenantOf(sent[i])

\* a delete with no identifier sent with the default row's credential and
\* identifier, beside a row that holds another credential
C25_Witness ==
    /\ Resolving
    /\ call.tool = "ghl_delete_contact_custom_field"
    /\ call.args.locationId = Undefined
    /\ \E r \in Defaults(db), q \in db :
        /\ q.api_key # r.api_key /\ q.id # r.id
        /\ Uses(r.api_key, r.id)

----------------------------------------------------------------------------

\* C26: when the lookup of a resolution with no identifier runs after the
\* clearing statement and before the flagging statement of an overlapping
\* register-as-default or set-default call, it finds no default row, and the
\* request that follows carries the fallback credential and the fallback
\* tenant id, also when a row was the default before that call and one is
\* after it.
C26_ResolutionBetweenClearAndSet ==
    [][/\ (/\ DefaultSetting(running[1]) /\ running[1].pc = "write"
            /\ running[2].args.locationId = Undefined
            /\ running[2].pc = "read" /\ running'[2].pc = "fetch")
           => running'[2].account = {}
       /\ (/\ running[2].args.locationId = Undefined
            /\ running[2].account = {}
            /\ running[2].pc = "fetch" /\ running'[2].pc = "done")
           => /\ Len(sent') = 1
              /\ BearerOf(sent'[1]) = EnvApiKey
              /\ TenantOf(sent'[1]) = EnvLocationId]_vars

\* a set-default call found its row flagged default, cleared and flagged it
\* again; the resolution in between found no default and the request went
\* out with the fallback pair
C26_Witness ==
    /\ Len(running) = 2
    /\ running[1].tool = "ghl_set_default_account"
    /\ running[1].pc = "done" /\ SucceededIn(running[1].resp)
    /\ \E r \in running[1].account : r.is_default = 1
    /\ Defaults(db) # {}
    /\ running[2].tool = "ghl_list_contact_custom_fields"
    /\ running[2].args.locationId = Undefined
    /\ running[2].pc = "done" /\ running[2].account = {}
    /\ Len(sent) = 1 /\ Uses(EnvApiKey, EnvLocationId)

----------------------------------------------------------------------------

\* C27: a successful ghl_add_sub_account call for identifier X with
\* isDefault = false leaves X's row with default flag 0 whatever the flag was
\* before, and leaves every other row, its flag included, as it was; so when
\* X was the one default row, no row is the default afterwards.
C27_RegisterUnflaggedClearsOwnFlag ==
    [][(/\ call'.tool = "ghl_add_sub_account"
        /\ ~call'.args.isDefault
        /\ SucceededIn(resp'))
        => /\ \E r \in db' : r.id = call'.args.locationId /\ r.is_default = 0
           /\ \A r \in db' : r.id = call'.args.locationId => r.is_default = 0
           /\ \A r \in db : r.id # call'.args.locationId => r \in db'
           /\ \A r \in db' : r.id # call'.args.locationId => r \in db
           /\ {r.id : r \in Defaults(db)} = {call'.args.locationId}
                => Defaults(db') = {}]_vars

\* the row that was the default registered again without the flag: no row
\* of the two is the default
C27_Witness ==
    /\ call.tool = "ghl_add_sub_account" /\ ~call.args.isDefault /\ Succeeded
    /\ Cardinality(db) = 2
    /\ Defaults(db) = {}
    /\ \E r \in db : r.id = call.args.locationId /\ r.api_key = call.args.apiKey

----------------------------------------------------------------------------

\* C28: a successful ghl_remove_sub_account call for the row that holds the
\* default flag flags no other row: afterwards no row is the default.  From
\* then on every resolution with no identifier yields the fallback pair, and
\* the table stays without a default, until a register call with
\* isDefault = true or a set-default call succeeds.
C28_RemovingDefaultPromotesNone ==
    [][/\ (/\ call'.tool = "ghl_remove_sub_account" /\ SucceededIn(resp')
            /\ {r.id : r \in Defaults(db)} = {call'.args.locationId})
           => /\ Defaults(db') = {}
              /\ db' = {r \in db : r.id # call'.args.locationId}
       /\ (/\ call'.tool \in RegistryTools
            /\ Defaults(db) = {} /\ Defaults(db') # {})
           => /\ SucceededIn(resp')
              /\ \/ call'.tool = "ghl_add_sub_account" /\ call'.args.isDefault
                 \/ call'.tool = "ghl_set_default_account"
       /\ (/\ call'.tool \in FieldTools /\ call'.fault = "none"
            /\ call'.args.locationId = Undefined
            /\ Defaults(db) = {})
           => /\ Len(sent') = 1
              /\ UsesIn(sent', EnvApiKey, EnvLocationId)
              /\ Defaults(db') = {}]_vars

\* a registration removed; the one that remains is unflagged
C28_Witness ==
    /\ call.tool = "ghl_remove_sub_account" /\ Succeeded
    /\ ~Registered(call.args.locationId)
    /\ db # {}
    /\ Defaults(db) = {}

----------------------------------------------------------------------------

\* a set-default call decided by the identifier alone: its row becomes the
\* one default, or, when the identifier has no row, the call returns
\* not-found and changes nothing
ByIdentifierOnly(before, after, a, response) ==
    IF \E r \in before : r.id = a.locationId
    THEN /\ SucceededIn(response)
         /\ {r.id : r \in Defaults(after)} = {a.locationId}
    ELSE /\ response = Failure(NotFoundLong)
         /\ after = before

\* C29 as stated: a set-default call given both an identifier and a name
\* uses only the identifier: when the identifier has no row the call returns
\* not-found without consulting the name, even when the name matches a row.
C29_AsStated ==
    [][(/\ call'.tool = "ghl_set_default_account" /\ call'.fault = "none"
        /\ call'.args.locationId # Undefined /\ call'.args.name # Undefined)
        => ByIdentifierOnly(db, db', call'.args, resp')]_vars

\* C29: a set-default call given both an identifier that is not the empty
\* string and a name uses only the identifier: when the identifier has no row
\* the call returns not-found without consulting the name, even when the name
\* matches a row.
C29_IdentifierTakesPrecedence ==
    [][(/\ call'.tool = "ghl_set_default_account" /\ call'.fault = "none"
        /\ Truthy(call'.args.locationId) /\ call'.args.name # Undefined)
        => ByIdentifierOnly(db, db', call'.args, resp')]_vars

\* not-found for an unregistered identifier although the name given with it
\* matches the row that is the default
C29_Witness ==
    /\ call.tool = "ghl_set_default_account" /\ call.fault = "none"
    /\ Truthy(call.args.locationId) /\ ~Registered(call.args.locationId)
    /\ call.args.name # Undefined
    /\ \E r \in Defaults(db) : Like(r.name, call.args.name)
    /\ resp = Failure(NotFoundLong)

----------------------------------------------------------------------------

\* a bulk response without the error flag that carries the counts and one
\* record per field
BulkReport(response, prefix, fields, replies) ==
    LET N == Len(fields)
        M == Cardinality({i \in 1..N : ItemFails(replies[i])})
    IN  /\ ~response.thrown /\ ~response.isError
        /\ response.text = <<prefix, ToString(N - M), " succeeded, ",
                              ToString(M), " failed.\n\n">>
        /\ Len(response.json) = N
        /\ \A i \in 1..N : response.json[i].success = ~ItemFails(replies[i])

\* C30: failures of single fields never set the error flag of the bulk
\* response: whenever tenant resolution succeeds, the bulk tool returns a
\* response without the error flag that carries the counts and the records,
\* also when every field fails and when the list is empty; the bulk tool of
\* the single-tenant server, which resolves nothing, does so always.
C30_BulkItemFailuresNotAnError ==
    (call.tool = "ghl_bulk_create_contact_custom_fields" /\ call.fault = "none")
        => /\ Len(upstream) = Len(call.args.fields)
           /\ BulkReport(resp, "Bulk create: ", call.args.fields, upstream)
           /\ (running # <<>> /\ "server" \in DOMAIN running[1])
                => BulkReport(running[1].resp, "Bulk create complete: ",
                              call.args.fields, upstream)

\* both servers report two failures out of two without the error flag
C30_Witness ==
    /\ call.tool = "ghl_bulk_create_contact_custom_fields" /\ call.fault = "none"
    /\ Len(call.args.fields) = 2
    /\ FailedItems = {1, 2}
    /\ Succeeded
    /\ resp.text = <<"Bulk create: ", "0", " succeeded, ", "2", " failed.\n\n">>
    /\ running # <<>> /\ "server" \in DOMAIN running[1]
    /\ ~running[1].resp.isError

====
